---- MODULE Spec2Model ----
(***************************************************************************)
(* Quantum Password Strength Analyzer (src/main.py).                       *)
(*                                                                         *)
(* Two specifications over one set of variables:                           *)
(*   Spec    - the utility functions of main.py, each applied to inputs    *)
(*             drawn from bounded sets (one action per function);          *)
(*   AppSpec - the Streamlit script: every user interaction reruns the     *)
(*             whole script against st.session_state.                      *)
(*                                                                         *)
(* Numbers.  Python floats are modelled in fixed point:                    *)
(*   - bits (entropy, log2 of a crack time) are integers in micro-bits;    *)
(*   - a crack time is kept as its base-2 logarithm, so that 2**e for      *)
(*     e up to and beyond the float range (2**1024) stays representable;   *)
(*   - the seconds given to human_time and time_to_percent_years are       *)
(*     exact: a record of whole days and milliseconds within the day.      *)
(***************************************************************************)
EXTENDS Integers, Sequences, FiniteSets

VARIABLES
    fn,               \* Spec: name of the function applied
    arg,              \* Spec: its arguments
    ret,              \* Spec: Pending, then what it returned or the exception it raised
    pool,             \* Spec: value of estimate_entropy's local `pool` at its last return
    session_password, \* AppSpec: st.session_state["password"]
    text,             \* AppSpec: content of the "Password to analyze" field
    c_ops,            \* AppSpec: "Classical guesses/sec" field
    q_ops,            \* AppSpec: "Quantum ops/sec" field
    password,         \* AppSpec: the script's variable `password` after line 108
    output,           \* AppSpec: what the Analysis section rendered
    last_obtained     \* AppSpec: history - the password the user supplied last

vars == <<fn, arg, ret, pool, session_password, text, c_ops, q_ops,
          password, output, last_obtained>>

libVars == <<fn, arg, ret, pool>>
appVars == <<session_password, text, c_ops, q_ops, password, output, last_obtained>>

----------------------------------------------------------------------------
(* Bounds *)

\* longest password given to estimate_entropy in Spec
MaxLen == 4

\* longest text typed into the password field in AppSpec
MaxTypedLen == 1

\* number of characters of a generated password that are drawn freely
GenFree == 2

----------------------------------------------------------------------------
(* Characters.  One representative per kind of character the classifiers  *)
(* of lines 47-50 tell apart; a non-ASCII character is named by its code  *)
(* point.                                                                  *)

\* "U+00E9" is e-acute (a lowercase letter), "U+4E2D" a CJK letter without case
Chars == {"a", "A", "1", "!", " ", "U+00E9", "U+4E2D"}

\* string.ascii_letters + string.digits + string.punctuation, by representative
GenAlphabet == {"a", "A", "1", "!"}

\* str.islower(): true of every Unicode lowercase letter
islower(c) == c \in {"a", "U+00E9"}

\* str.isupper()
isupper(c) == c \in {"A"}

\* str.isdigit()
isdigit(c) == c \in {"1"}

\* c in string.punctuation: the 32 ASCII punctuation characters
punctuation == {"!"}

RECURSIVE SeqsUpTo(_, _)
SeqsUpTo(S, n) ==
    IF n = 0 THEN {<< >>}
    ELSE LET shorter == SeqsUpTo(S, n - 1)
         IN  shorter \cup {Append(s, c) : s \in {t \in shorter : Len(t) = n - 1}, c \in S}

Passwords == SeqsUpTo(Chars, MaxLen)

----------------------------------------------------------------------------
(* Fixed point *)

\* micro-bits per bit
Micro == 1000 * 1000

\* math.log2 on the pool sizes the four classes can add up to, and on the
\* attack rates of OpsValues, in micro-bits
Log2Micro(n) ==
    CASE n = 1  -> 0
      [] n = 10 -> 3321928
      [] n = 26 -> 4700440
      [] n = 32 -> 5000000
      [] n = 36 -> 5169925
      [] n = 42 -> 5392317
      [] n = 52 -> 5700440
      [] n = 58 -> 5857981
      [] n = 62 -> 5954196
      [] n = 68 -> 6087463
      [] n = 84 -> 6392317
      [] n = 94 -> 6554589
      [] n = 1000000 -> 19931569
      [] n = 1000000000 -> 29897353

\* round(x, 2): x in micro-bits, to the nearest hundredth of a bit
Round2(x) == ((x + 5000) \div 10000) * 10000

----------------------------------------------------------------------------
(* estimate_entropy, lines 43-53 *)

POOL_SIZES == [lower |-> 26, upper |-> 26, digits |-> 10, symbols |-> 32]

\* lines 46-50: pool = 0, then one `if any(...)` per class, in this order
PoolOf(pw) ==
    LET p0 == 0
        p1 == IF \E i \in DOMAIN pw : islower(pw[i])
              THEN p0 + POOL_SIZES.lower ELSE p0
        p2 == IF \E i \in DOMAIN pw : isupper(pw[i])
              THEN p1 + POOL_SIZES.upper ELSE p1
        p3 == IF \E i \in DOMAIN pw : isdigit(pw[i])
              THEN p2 + POOL_SIZES.digits ELSE p2
        p4 == IF \E i \in DOMAIN pw : pw[i] \in punctuation
              THEN p3 + POOL_SIZES.symbols ELSE p3
    IN  p4

\* a pool kept across calls instead of starting at 0
PoolCarried(pw) == pool + PoolOf(pw)

\* the local `pool` when estimate_entropy(pw) returns
PoolAtReturn(pw) == PoolOf(pw)

\* len(password) counting distinct characters only
LenDistinct(pw) == Cardinality({pw[i] : i \in DOMAIN pw})

\* len(password), line 53
PasswordLen(pw) == Len(pw)

\* lines 51-53; the result is in micro-bits (a multiple of 10000)
estimate_entropy(pw) ==
    LET p == PoolOf(pw)
    IN  IF p = 0 THEN 0 ELSE Round2(Log2Micro(p) * PasswordLen(pw))

----------------------------------------------------------------------------
(* Crack times, lines 71-81.  A time is a record: kind "fin" with lg, its *)
(* base-2 logarithm in micro-bits; kind "inf" for float("inf"); kind      *)
(* "raise" (with the exception's name) when the call raises instead of    *)
(* returning.                                                              *)

Inf == [kind |-> "inf", lg |-> 0, exc |-> ""]

Fin(x) == [kind |-> "fin", lg |-> x, exc |-> ""]

Raise(e) == [kind |-> "raise", lg |-> 0, exc |-> e]

\* exponent at which a double overflows: 2.0**1024 is not representable
FloatMaxLg == 1024 * Micro

\* 2**x on floats: Python raises OverflowError when the result is out of range
Pow2(x) == IF x >= FloatMaxLg THEN Raise("OverflowError") ELSE Fin(x)

\* a / b for a finite float a and a rate b > 0: float division overflows to inf
DivOps(a, b) ==
    LET x == a.lg - Log2Micro(b)
    IN  IF x >= FloatMaxLg THEN Inf ELSE Fin(x)

\* full/2 if average else full
Averaged(full, average) ==
    IF average /\ full.kind = "fin" THEN Fin(full.lg - Micro) ELSE full

\* the power evaluated before the rate is looked at
classical_pow_first(entropy_bits, ops_per_sec, average) ==
    LET p == Pow2(entropy_bits)
    IN  IF p.kind = "raise" THEN p
        ELSE IF ops_per_sec <= 0 THEN Inf
        ELSE Averaged(DivOps(p, ops_per_sec), average)

\* lines 71-75
classical_time_seconds(entropy_bits, ops_per_sec, average) ==
    IF ops_per_sec <= 0 THEN Inf
    ELSE LET p == Pow2(entropy_bits)
         IN  IF p.kind = "raise" THEN p
             ELSE Averaged(DivOps(p, ops_per_sec), average)

\* lines 77-81
grover_time_seconds(entropy_bits, quantum_ops_per_sec, average) ==
    IF quantum_ops_per_sec <= 0 THEN Inf
    ELSE LET p == Pow2(entropy_bits \div 2)
         IN  IF p.kind = "raise" THEN p
             ELSE Averaged(DivOps(p, quantum_ops_per_sec), average)

\* a < b on returned times
TimeLess(a, b) ==
    \/ a.kind = "fin" /\ b.kind = "inf"
    \/ a.kind = "fin" /\ b.kind = "fin" /\ a.lg < b.lg

\* password lengths whose entropies are given to the crack-time functions
CrackLens == {1, 8, 64, 156, 157, 312, 313}

\* entropy_bits >= 0: estimate_entropy's results for lowercase-only and
\* four-class passwords of the lengths above, 0.0, and the two values
\* around the float range
EntropyInputs ==
    {0, 1023990000, FloatMaxLg}
        \cup {Round2(Log2Micro(p) * n) : p \in {26, 94}, n \in CrackLens}

\* a negative rate, zero, and positive ones (the defaults are 1e9 and 1e6)
OpsValues == {-1, 0, 1, 1000000, 1000000000}

----------------------------------------------------------------------------
(* Seconds given to human_time and time_to_percent_years.  A finite     *)
(* value is exact: days whole days plus ms milliseconds (0..86399999).     *)

SecInf == [kind |-> "inf", days |-> 0, ms |-> 0]

SecNaN == [kind |-> "nan", days |-> 0, ms |-> 0]

SecFin(d, m) == [kind |-> "fin", days |-> d, ms |-> m]

\* seconds in a day: `day` of line 60, 3600*24 of line 86
SecPerDay == 86400

\* t < n for a finite t and a whole number n of seconds
LtSeconds(t, n) ==
    \/ t.days < n \div SecPerDay
    \/ t.days = n \div SecPerDay /\ t.ms < (n % SecPerDay) * 1000

\* seconds < n on floats: false of nan, false of +inf
FloatLt(seconds, n) == seconds.kind = "fin" /\ LtSeconds(seconds, n)

\* seconds <= n on floats: false of nan, false of +inf
FloatLe(seconds, n) ==
    /\ seconds.kind = "fin"
    /\ \/ LtSeconds(seconds, n)
       \/ seconds = SecFin(n \div SecPerDay, (n % SecPerDay) * 1000)

\* the string f"{seconds/divisor:.{decimals}f}{unit}"
Rendered(seconds, divisor, decimals, unit) ==
    [num |-> seconds, div |-> divisor, decimals |-> decimals, unit |-> unit]

\* the string of the single character U+221E
InfinitySymbol == [num |-> SecInf, div |-> 1, decimals |-> 0, unit |-> "U+221E"]

\* every comparison of lines 58-67 made with <= in place of <
human_time_inclusive(seconds) ==
    LET minute == 60
        hour == 3600
        day == 86400
        year == 31536000
    IN  IF seconds.kind = "nan" \/ seconds.kind = "inf" THEN InfinitySymbol
        ELSE IF FloatLe(seconds, 1) THEN Rendered(seconds, 1, 3, " s")
        ELSE IF FloatLe(seconds, minute) THEN Rendered(seconds, 1, 2, " s")
        ELSE IF FloatLe(seconds, hour) THEN Rendered(seconds, minute, 2, " min")
        ELSE IF FloatLe(seconds, day) THEN Rendered(seconds, hour, 2, " hr")
        ELSE IF FloatLe(seconds, year) THEN Rendered(seconds, day, 2, " days")
        ELSE Rendered(seconds, year, 2, " years")

\* lines 55-69
human_time(seconds) ==
    LET minute == 60
        hour == 3600
        day == 86400
        year == 31536000
    IN  IF seconds.kind = "nan" \/ seconds.kind = "inf" THEN InfinitySymbol
        ELSE IF FloatLt(seconds, 1) THEN Rendered(seconds, 1, 3, " s")
        ELSE IF FloatLt(seconds, minute) THEN Rendered(seconds, 1, 2, " s")
        ELSE IF FloatLt(seconds, hour) THEN Rendered(seconds, minute, 2, " min")
        ELSE IF FloatLt(seconds, day) THEN Rendered(seconds, hour, 2, " hr")
        ELSE IF FloatLt(seconds, year) THEN Rendered(seconds, day, 2, " days")
        ELSE Rendered(seconds, year, 2, " years")

\* PctFrom[k], for k in 1..100: the least duration (whole days, then
\* milliseconds) at which int((math.log10(years + 1) / 2.0) * 100) >= k,
\* where years = seconds / (3600*24*365)
PctFromDays ==
    <<17, 35, 54, 73, 94, 116, 138, 162, 187, 213, 240, 269, 299, 330, 363,
      397, 433, 471, 510, 551, 595, 640, 687, 737, 789, 843, 900, 960, 1022,
      1088, 1156, 1228, 1303, 1381, 1464, 1550, 1640, 1735, 1834, 1937,
      2046, 2160, 2279, 2403, 2534, 2670, 2814, 2963, 3120, 3285, 3457,
      3637, 3825, 4023, 4230, 4446, 4673, 4910, 5159, 5419, 5692, 5977,
      6276, 6589, 6917, 7260, 7620, 7996, 8390, 8803, 9235, 9687, 10161,
      10657, 11177, 11721, 12290, 12887, 13511, 14165, 14850, 15567, 16318,
      17104, 17928, 18790, 19693, 20638, 21628, 22664, 23750, 24886, 26076,
      27323, 28627, 29994, 31425, 32923, 34492, 36135>>

PctFromMs ==
    <<17445892, 18536394, 6572608, 71411211, 43871787, 14144508, 72598169,
      50588611, 38867531, 41991718, 64732713, 25686936, 16486278, 42609202,
      23392365, 51242783, 46050573, 14402298, 49594935, 72450505, 4131393,
      25356389, 58017483, 24397455, 19988292, 54310471, 50933159, 20295353,
      59728024, 7877306, 49528772, 24432856, 32131477, 86385915, 28805997,
      47280665, 71209980, 30738639, 29591065, 85908156, 45885764, 15814989,
      16524370, 69824062, 25752103, 81022855, 1477729, 72538300, 62461928,
      0, 1658914, 12563936, 65726076, 22912101, 6717864, 55045072, 34781686,
      73886103, 43075307, 74317175, 42527130, 84069355, 78462772, 80492017,
      61123649, 80427827, 28505729, 57622977, 63949342, 33305041, 41313925,
      80763885, 61774827, 71174546, 27082911, 24704708, 77331588, 30153523,
      78880237, 78773058, 63287713, 71528553, 62114770, 86259149, 28859967,
      40806644, 20899798, 48186387, 36710645, 81481553, 26857637, 71749890,
      78843693, 7040613, 84721027, 32628550, 14777286, 34182993, 19819278,
      0>>

\* int((math.log10(years + 1) / 2.0) * 100) for a finite duration, line 89
Log10Pct(seconds) ==
    Cardinality({k \in 1..100 :
        \/ seconds.days > PctFromDays[k]
        \/ seconds.days = PctFromDays[k] /\ seconds.ms >= PctFromMs[k]})

Max(a, b) == IF a >= b THEN a ELSE b

Min(a, b) == IF a <= b THEN a ELSE b

IntResult(n) == [kind |-> "int", v |-> n, exc |-> ""]

RaiseInt(e) == [kind |-> "raise", v |-> 0, exc |-> e]

\* years >= 100 on floats, years = seconds / (3600*24*365): true of +inf,
\* false of nan; a year is 365 whole days, so a finite duration reaches 100
\* years exactly when its whole days reach 100 * 365
YearsGe100(seconds) ==
    \/ seconds.kind = "inf"
    \/ /\ seconds.kind = "fin"
       /\ seconds.days >= 100 * ((3600 * 24 * 365) \div SecPerDay)

\* lines 83-90; math.log10 of a nan is a nan, and int() of a nan raises ValueError
time_to_percent_years(seconds) ==
    IF FloatLe(seconds, 1) THEN IntResult(0)
    ELSE IF YearsGe100(seconds) THEN IntResult(100)
    ELSE IF seconds.kind = "nan" THEN RaiseInt("ValueError")
    ELSE IntResult(Max(0, Min(100, Log10Pct(seconds))))

\* whole days of the durations given to the two functions
DayInputs == {0, 1, 17, 364, 365, 3285, 36134, 36135, 36499, 36500, 40000}

\* milliseconds within the day of the durations given to the two functions
MsInputs == {0, 1, 500, 999, 1000, 1001, 59999, 60000, 3599999, 3600000, 86399999}

SecondsInputs ==
    {SecFin(d, m) : d \in DayInputs, m \in MsInputs} \cup {SecInf, SecNaN}

----------------------------------------------------------------------------
(* Analysis and Graph sections, lines 116-176 *)

\* list(range(4, 33)), line 160
lengths == [i \in 1..29 |-> i + 3]

\* the lowercase pool taken whatever the password holds
SweepPoolAlwaysLower(pw) == POOL_SIZES.lower

\* lines 161-167: the pool of the analysed password, the lowercase pool if it is 0
SweepPool(pw) ==
    LET p == PoolOf(pw)
    IN  IF p = 0 THEN POOL_SIZES.lower ELSE p

\* math.log10(t + 1) of a crack time, kept as the time it is taken of
Log10Plus1(t) == [log10_of_1_plus |-> t]

\* lines 169-174: one tuple (l, e, log10(c_t+1), log10(q_t+1)) per length;
\* e is not rounded
SweepRows(pw, c, q) ==
    LET pl == SweepPool(pw)
    IN  [i \in DOMAIN lengths |->
            LET l == lengths[i]
                e == Log2Micro(pl) * l
                c_t == classical_time_seconds(e, c, TRUE)
                q_t == grover_time_seconds(e, q, TRUE)
            IN  <<l, e, Log10Plus1(c_t), Log10Plus1(q_t)>>]

\* lines 145-152
Recommendation(entropy) ==
    IF entropy < 40 * Micro THEN "Weak"
    ELSE IF entropy < 60 * Micro THEN "Moderate"
    ELSE IF entropy < 80 * Micro THEN "Strong"
    ELSE "Very strong"

\* line 117: st.info("Enter or generate a password to analyze.")
InfoOutput == [info |-> TRUE]

\* lines 119-176 for a non-empty password.  The table and the meters show
\* human_time and time_to_percent_years of the two times; they are functions
\* of classical_avg and quantum_avg and are not kept here.
Analysis(pw, c, q) ==
    LET entropy == estimate_entropy(pw)
    IN  [info |-> FALSE,
         results_for |-> pw,
         entropy |-> entropy,
         classical_avg |-> classical_time_seconds(entropy, c, TRUE),
         quantum_avg |-> grover_time_seconds(entropy, q, TRUE),
         recommendation |-> Recommendation(entropy),
         rows |-> SweepRows(pw, c, q)]

\* lines 116-118
Render(pw, c, q) == IF pw = << >> THEN InfoOutput ELSE Analysis(pw, c, q)

\* the two rate fields: the defaults of lines 112-113 and no usable rate
RateInputs == {0, 1000000, 1000000000}

----------------------------------------------------------------------------
(* Spec: the functions applied to drawn inputs *)

Pending == [kind |-> "pending"]

\* the values estimate_entropy's local `pool` can be left with by an earlier call
EarlierPools == {PoolOf(pw) : pw \in Passwords}

AppIdle ==
    /\ session_password = << >>
    /\ text = << >>
    /\ c_ops = 1000000000
    /\ q_ops = 1000000
    /\ password = << >>
    /\ output = InfoOutput
    /\ last_obtained = << >>

CallInputs ==
    {<<"estimate_entropy", <<pw>>>> : pw \in Passwords}
        \cup {<<f, <<e, o, a>>>> :
                f \in {"classical_time_seconds", "grover_time_seconds"},
                e \in EntropyInputs, o \in OpsValues, a \in BOOLEAN}
        \cup {<<f, <<s>>>> :
                f \in {"human_time", "time_to_percent_years"}, s \in SecondsInputs}
        \cup {<<"sweep", <<pw, r[1], r[2]>>>> :
                pw \in Passwords \ {<< >>}, r \in {<<1000000000, 1000000>>, <<0, 0>>}}

\* a call about to be made, after any earlier call of estimate_entropy
Init ==
    /\ \E c \in CallInputs : fn = c[1] /\ arg = c[2]
    /\ ret = Pending
    /\ pool \in (IF fn = "estimate_entropy" THEN EarlierPools ELSE {0})
    /\ AppIdle

CallEstimateEntropy ==
    /\ fn = "estimate_entropy" /\ ret = Pending
    /\ ret' = [kind |-> "bits", v |-> estimate_entropy(arg[1])]
    /\ pool' = PoolAtReturn(arg[1])
    /\ UNCHANGED <<fn, arg>>
    /\ UNCHANGED appVars

CallClassicalTime ==
    /\ fn = "classical_time_seconds" /\ ret = Pending
    /\ ret' = classical_time_seconds(arg[1], arg[2], arg[3])
    /\ UNCHANGED <<fn, arg, pool>>
    /\ UNCHANGED appVars

CallGroverTime ==
    /\ fn = "grover_time_seconds" /\ ret = Pending
    /\ ret' = grover_time_seconds(arg[1], arg[2], arg[3])
    /\ UNCHANGED <<fn, arg, pool>>
    /\ UNCHANGED appVars

CallHumanTime ==
    /\ fn = "human_time" /\ ret = Pending
    /\ ret' = human_time(arg[1])
    /\ UNCHANGED <<fn, arg, pool>>
    /\ UNCHANGED appVars

CallTimeToPercent ==
    /\ fn = "time_to_percent_years" /\ ret = Pending
    /\ ret' = time_to_percent_years(arg[1])
    /\ UNCHANGED <<fn, arg, pool>>
    /\ UNCHANGED appVars

\* the Graph section run on a non-empty password and two rates
RunSweep ==
    /\ fn = "sweep" /\ ret = Pending
    /\ ret' = [kind |-> "rows", rows |-> SweepRows(arg[1], arg[2], arg[3])]
    /\ UNCHANGED <<fn, arg, pool>>
    /\ UNCHANGED appVars

Next ==
    \/ CallEstimateEntropy
    \/ CallClassicalTime
    \/ CallGroverTime
    \/ CallHumanTime
    \/ CallTimeToPercent
    \/ RunSweep

Spec == Init /\ [][Next]_vars

----------------------------------------------------------------------------
(* AppSpec: the script, lines 92-176.  Streamlit reruns the whole script   *)
(* on every interaction; an action is one interaction and the rerun it     *)
(* causes.  The text field of line 100 has no key: it keeps what the user  *)
(* typed for as long as its default value (st.session_state["password"])   *)
(* stays the same, and shows the new default when that changes.            *)

\* min_value and value of the "Generate length" field, line 102
MinGenLen == 6

DefaultGenLen == 12

GenLens == {MinGenLen, DefaultGenLen}

\* the draws of secrets.choice after the first GenFree ones
FixedDraws == <<"a", "A", "1", "!">>

\* line 105: gen_len characters drawn from the alphabet; the first GenFree
\* draws range over the alphabet, the later ones are fixed
Generated(n) ==
    {[i \in 1..n |-> IF i <= GenFree THEN f[i] ELSE FixedDraws[((i - 1) % 4) + 1]] :
        f \in [1..GenFree -> GenAlphabet]}

TypedTexts == SeqsUpTo(Chars, MaxTypedLen)

LibIdle ==
    /\ fn = "none"
    /\ arg = << >>
    /\ ret = Pending
    /\ pool = 0

\* the first run of the script: lines 95-96 set the session's password to ""
AppInit ==
    /\ AppIdle
    /\ LibIdle

\* the rerun: line 108 takes the session's password, lines 116-176 analyse it
Rerun(sp, c, q) ==
    /\ password' = sp
    /\ output' = Render(sp, c, q)

\* the user types t into "Password to analyze"; line 100 returns t, line 108
\* then rebinds `password`
TypePassword ==
    \E t \in TypedTexts :
        /\ t # text
        /\ text' = t
        /\ last_obtained' = t
        /\ Rerun(session_password, c_ops, q_ops)
        /\ UNCHANGED <<session_password, c_ops, q_ops>>
        /\ UNCHANGED libVars

\* the user presses "Generate random password": lines 103-106 store the
\* generated string and rerun
ClickGenerate ==
    \E n \in GenLens : \E g \in Generated(n) :
        /\ session_password' = g
        /\ text' = IF g = session_password THEN text ELSE g
        /\ last_obtained' = g
        /\ Rerun(g, c_ops, q_ops)
        /\ UNCHANGED <<c_ops, q_ops>>
        /\ UNCHANGED libVars

\* the user edits "Classical guesses/sec", line 112
SetClassicalOps ==
    \E v \in RateInputs :
        /\ v # c_ops
        /\ c_ops' = v
        /\ Rerun(session_password, v, q_ops)
        /\ UNCHANGED <<session_password, text, q_ops, last_obtained>>
        /\ UNCHANGED libVars

\* the user edits "Quantum ops/sec", line 113
SetQuantumOps ==
    \E v \in RateInputs :
        /\ v # q_ops
        /\ q_ops' = v
        /\ Rerun(session_password, c_ops, v)
        /\ UNCHANGED <<session_password, text, c_ops, last_obtained>>
        /\ UNCHANGED libVars

AppNext ==
    \/ TypePassword
    \/ ClickGenerate
    \/ SetClassicalOps
    \/ SetQuantumOps

AppSpec == AppInit /\ [][AppNext]_vars

----------------------------------------------------------------------------
(* Properties *)

\* f has been applied and has returned or raised
Done(f) == fn = f /\ ret # Pending

ClassNames == {"lower", "upper", "digits", "symbols"}

InClass(k, c) ==
    CASE k = "lower" -> islower(c)
      [] k = "upper" -> isupper(c)
      [] k = "digits" -> isdigit(c)
      [] k = "symbols" -> c \in punctuation

\* the classes with at least one character in pw
ClassesPresent(pw) == {k \in ClassNames : \E i \in DOMAIN pw : InClass(k, pw[i])}

RECURSIVE SumSizes(_)
SumSizes(S) ==
    IF S = {} THEN 0
    ELSE LET k == CHOOSE x \in S : TRUE
         IN  POOL_SIZES[k] + SumSizes(S \ {k})

\* C1, as stated: after estimate_entropy(pw) the effective pool is the sum of
\* the sizes of the classes present in pw, whatever an earlier call left
\* behind, and is one of 0, 26, 36, 46, 52, 58, 62, 68, 78, 88, 94.
C1_PoolInListedSet ==
    Done("estimate_entropy") =>
        /\ pool = SumSizes(ClassesPresent(arg[1]))
        /\ pool \in {0, 26, 36, 46, 52, 58, 62, 68, 78, 88, 94}

\* C1, amended: the same, with the set of the sums of the subsets of
\* 26, 26, 10, 32: 0, 10, 26, 32, 36, 42, 52, 58, 62, 68, 84, 94.
C1_PoolInSubsetSums ==
    Done("estimate_entropy") =>
        /\ pool = SumSizes(ClassesPresent(arg[1]))
        /\ pool \in {0, 10, 26, 32, 36, 42, 52, 58, 62, 68, 84, 94}

\* a digits-and-symbols password has been estimated: its pool is 42
C1_Witness ==
    /\ Done("estimate_entropy")
    /\ ClassesPresent(arg[1]) = {"digits", "symbols"}
    /\ pool = 42

\* C2: estimate_entropy(pw) is round(log2(P) * len(pw), 2), P the sum of the
\* sizes of the classes present in pw (0.0 when none is), so it depends on
\* the set of classes present and the length alone; with all four classes
\* P = 94, and with lowercase letters only (at least one) P = 26.
C2_EntropyFromClassesAndLength ==
    Done("estimate_entropy") =>
        LET pw == arg[1]
            P == SumSizes(ClassesPresent(pw))
        IN  /\ P > 0 => ret.v = Round2(Log2Micro(P) * Len(pw))
            /\ P = 0 => ret.v = 0
            /\ ClassesPresent(pw) = ClassNames =>
                    ret.v = Round2(Log2Micro(94) * Len(pw))
            /\ (Len(pw) >= 1 /\ \A i \in DOMAIN pw : islower(pw[i])) =>
                    ret.v = Round2(Log2Micro(26) * Len(pw))

\* a password with one character of each of the four classes has been estimated
C2_Witness ==
    /\ Done("estimate_entropy")
    /\ ClassesPresent(arg[1]) = ClassNames
    /\ ret.v = Round2(Log2Micro(94) * Len(arg[1]))

\* the four classes as the claim names them: ASCII lowercase, ASCII
\* uppercase, decimal digit, ASCII punctuation
Recognized == {"a", "A", "1", "!"}

\* C3: estimate_entropy(pw) is 0.0 when pw is empty or has no character of
\* the four recognized classes (spaces, non-ASCII letters), and is greater
\* than 0 for every other password.
C3_ZeroIffNoRecognizedCharacter ==
    Done("estimate_entropy") =>
        IF \A i \in DOMAIN arg[1] : arg[1][i] \notin Recognized
        THEN ret.v = 0
        ELSE ret.v > 0

\* the exponent the function raises 2 to
Exponent(f, entropy_bits) ==
    IF f = "grover_time_seconds" THEN entropy_bits \div 2 ELSE entropy_bits

\* C4: for entropy_bits >= 0 and ops_per_second > 0 both crack-time
\* functions return a duration and never raise; when the power of 2 is
\* beyond the float range the result is +infinity.
C4_CrackTimeNeverRaises ==
    ((Done("classical_time_seconds") \/ Done("grover_time_seconds"))
            /\ arg[1] >= 0 /\ arg[2] > 0) =>
        /\ ret.kind \in {"fin", "inf"}
        /\ Exponent(fn, arg[1]) >= FloatMaxLg => ret = Inf

\* C5: for entropy_bits >= 0 and ops_per_second <= 0 both crack-time
\* functions return +infinity, for either value of average, also where the
\* power of 2 could not be evaluated.
C5_NoRateIsInfinity ==
    ((Done("classical_time_seconds") \/ Done("grover_time_seconds"))
            /\ arg[1] >= 0 /\ arg[2] <= 0) =>
        ret = Inf

\* classical_time_seconds has been given a rate of 0 and an entropy whose
\* power of 2 overflows, and has returned +infinity
C5_Witness ==
    /\ Done("classical_time_seconds")
    /\ arg[2] = 0
    /\ arg[1] >= FloatMaxLg
    /\ ret = Inf

\* C6: for the same entropy_bits, ops_per_second > 0 and average, the
\* Grover time is less than the classical time when entropy_bits > 0 and
\* equal to it when entropy_bits = 0.
C6_GroverBelowClassical ==
    (Done("classical_time_seconds") /\ arg[1] >= 0 /\ arg[2] > 0) =>
        LET g == grover_time_seconds(arg[1], arg[2], arg[3])
        IN  /\ ret.kind \in {"fin", "inf"}
            /\ g.kind \in {"fin", "inf"}
            /\ arg[1] > 0 => TimeLess(g, ret)
            /\ arg[1] = 0 => g = ret

\* lo <= t < hi, in whole seconds
InInterval(t, lo, hi) == ~LtSeconds(t, lo) /\ LtSeconds(t, hi)

\* C7: human_time renders [0,1) with 3 decimals and " s", [1,60) with 2
\* decimals and " s", [60,3600) as seconds/60 " min", [3600,86400) as
\* seconds/3600 " hr", [86400,31536000) as seconds/86400 " days", and from
\* 31536000 on as seconds/31536000 " years"; nan and +inf render as the
\* infinity symbol.
C7_HumanTimeUnits ==
    Done("human_time") =>
        LET t == arg[1]
        IN  /\ t.kind \in {"nan", "inf"} => ret = InfinitySymbol
            /\ t.kind = "fin" =>
                /\ InInterval(t, 0, 1) => ret = Rendered(t, 1, 3, " s")
                /\ InInterval(t, 1, 60) => ret = Rendered(t, 1, 2, " s")
                /\ InInterval(t, 60, 3600) => ret = Rendered(t, 60, 2, " min")
                /\ InInterval(t, 3600, 86400) => ret = Rendered(t, 3600, 2, " hr")
                /\ InInterval(t, 86400, 31536000) =>
                        ret = Rendered(t, 86400, 2, " days")
                /\ ~LtSeconds(t, 31536000) =>
                        ret = Rendered(t, 31536000, 2, " years")

\* human_time has been given exactly 60 seconds and has rendered minutes
C7_Witness ==
    /\ Done("human_time")
    /\ arg[1] = SecFin(0, 60000)
    /\ ret = Rendered(arg[1], 60, 2, " min")

\* C8: time_to_percent_years returns an integer in 0..100 for every
\* duration (finite, +inf, nan) without raising; 0 when seconds <= 1 and
\* 100 from 100 years on.
C8_PercentTotal ==
    Done("time_to_percent_years") =>
        LET t == arg[1]
        IN  /\ ret.kind = "int"
            /\ ret.v \in 0..100
            /\ FloatLe(t, 1) => ret.v = 0
            /\ YearsGe100(t) => ret.v = 100

\* C9: after every interaction the password analysed (and named in the
\* results) is the one the user supplied last, typed or generated.
C9_AnalysedIsLatest ==
    /\ password = last_obtained
    /\ output.info = (last_obtained = << >>)
    /\ ~output.info => output.results_for = last_obtained

\* log2(P) in micro-bits: no value for P = 0
Log2Values(P) == IF P = 0 THEN {} ELSE {Log2Micro(P)}

\* the sweep has 29 rows, for the lengths 4..32 in increasing order, and row
\* i has the entropy x * length for a logarithm x among xs
SweepRowsAre(rows, xs) ==
    /\ Len(rows) = 29
    /\ \A i \in 1..Len(rows) :
        /\ rows[i][1] = i + 3
        /\ \E x \in xs : rows[i][2] = x * rows[i][1]

====
